---- MODULE Spec2Model ----
(***************************************************************************)
(* Wall Street Beater price fetcher (src/app/server.js).                   *)
(*                                                                         *)
(* The model follows one HTTP request through the two quote routes,        *)
(* GET /price/:symbol and GET /prices, and the three functions behind      *)
(* them: fetchPrice, fetchYahooPrice and fetchMockPrice.                   *)
(*                                                                         *)
(* Conventions                                                             *)
(*   - a JavaScript string that the code inspects character by character   *)
(*     (the symbols parameter, a symbol, the source parameter) is a        *)
(*     sequence of one-character strings;                                  *)
(*   - a JSON value of the upstream response is a tagged record            *)
(*     [t |-> <typeof>, ...];                                              *)
(*   - money is an integer: thousandths of a unit in the upstream JSON,    *)
(*     hundredths (cents) after toFixed(2);                                *)
(*   - an Error message, and a string built around one, is the sequence   *)
(*     of its parts, outermost prefix first;                               *)
(*   - Quote.timestamp (Date.now()) is not modelled.  Arithmetic is exact  *)
(*     (rationals), not IEEE double.                                       *)
(***************************************************************************)
EXTENDS Integers, Sequences, FiniteSets, TLC

VARIABLES pc, req, symbolList, calls, promises, settleOrder, response

vars == <<pc, req, symbolList, calls, promises, settleOrder, response>>

(***************************************************************************)
(* Bounds of the model.                                                    *)
(***************************************************************************)
\* longest symbols / :symbol string of a request
MaxLen == 3
\* Math.random() returns r / RandSteps for some r in 0 .. RandSteps - 1
RandSteps == 12
\* longest unknown symbol handed to fetchMockPrice on its own
MaxSymLen == 3

(***************************************************************************)
(* Strings.                                                                *)
(***************************************************************************)
Chars == {"a", "A", ",", " "}

\* \s of the regular expression, and what String.prototype.trim removes
WhiteSpace == {" "}

\* mutant: the pieces are split on commas only
SeparatorsCommaOnly == {","}

\* the character class [,\s]
Separators == {","} \cup WhiteSpace

StringsUpTo(n) == UNION {[1 .. k -> Chars] : k \in 0 .. n}

Lowers ==
    <<"a", "b", "c", "d", "e", "f", "g", "h", "i", "j", "k", "l", "m",
      "n", "o", "p", "q", "r", "s", "t", "u", "v", "w", "x", "y", "z">>

Uppers ==
    <<"A", "B", "C", "D", "E", "F", "G", "H", "I", "J", "K", "L", "M",
      "N", "O", "P", "Q", "R", "S", "T", "U", "V", "W", "X", "Y", "Z">>

UpperChar(c) ==
    IF \E i \in 1 .. 26 : Lowers[i] = c
    THEN Uppers[CHOOSE i \in 1 .. 26 : Lowers[i] = c]
    ELSE c

LowerChar(c) ==
    IF \E i \in 1 .. 26 : Uppers[i] = c
    THEN Lowers[CHOOSE i \in 1 .. 26 : Uppers[i] = c]
    ELSE c

toUpperCase(s) == [i \in 1 .. Len(s) |-> UpperChar(s[i])]

toLowerCase(s) == [i \in 1 .. Len(s) |-> LowerChar(s[i])]

RECURSIVE trimStart(_)
trimStart(s) ==
    IF s # <<>> /\ Head(s) \in WhiteSpace THEN trimStart(Tail(s)) ELSE s

RECURSIVE trimEnd(_)
trimEnd(s) ==
    IF s # <<>> /\ s[Len(s)] \in WhiteSpace
    THEN trimEnd(SubSeq(s, 1, Len(s) - 1))
    ELSE s

trim(s) == trimEnd(trimStart(s))

\* first index >= i of s that is not a separator (Len(s) + 1 if none):
\* the end of the greedy match of [,\s]+ starting at i
RECURSIVE MatchEnd(_, _)
MatchEnd(s, i) ==
    IF i <= Len(s) /\ s[i] \in Separators THEN MatchEnd(s, i + 1) ELSE i

\* String.prototype.split(/[,\s]+/): scan from i with the piece cur open
RECURSIVE SplitFrom(_, _, _, _)
SplitFrom(s, i, cur, acc) ==
    IF i > Len(s) THEN Append(acc, cur)
    ELSE IF s[i] \in Separators
         THEN SplitFrom(s, MatchEnd(s, i), <<>>, Append(acc, cur))
         ELSE SplitFrom(s, i + 1, Append(cur, s[i]), acc)

split(s) == SplitFrom(s, 1, <<>>, <<>>)

NormalizePiece(s) == toUpperCase(trim(s))

NonEmpty(s) == Len(s) > 0

\* mutant: a symbol already in the list is dropped
RECURSIVE Dedup(_, _)
Dedup(xs, acc) ==
    IF xs = <<>> THEN acc
    ELSE IF \E k \in 1 .. Len(acc) : acc[k] = Head(xs)
         THEN Dedup(Tail(xs), acc)
         ELSE Dedup(Tail(xs), Append(acc, Head(xs)))

NormalizeSymbolsDedup(symbols) ==
    LET pieces == split(symbols)
        mapped == [i \in 1 .. Len(pieces) |-> NormalizePiece(pieces[i])]
    IN  Dedup(SelectSeq(mapped, NonEmpty), <<>>)

\* symbols.split(/[,\s]+/).map(s => s.trim().toUpperCase()).filter(s => s.length > 0)
NormalizeSymbols(symbols) ==
    LET pieces == split(symbols)
        mapped == [i \in 1 .. Len(pieces) |-> NormalizePiece(pieces[i])]
    IN  SelectSeq(mapped, NonEmpty)

(***************************************************************************)
(* JSON values and the JavaScript operators the code applies to them.      *)
(***************************************************************************)
Undef == [t |-> "undefined"]

Null == [t |-> "null"]

Num(n) == [t |-> "number", v |-> n]

Str(s) == [t |-> "string", v |-> s]

Obj(fields) == [t |-> "object", f |-> fields]

Arr(elems) == [t |-> "array", e |-> elems]

\* ToBoolean
Truthy(j) ==
    CASE j.t \in {"undefined", "null"} -> FALSE
      [] j.t = "number" -> j.v # 0
      [] j.t = "string" -> j.v # ""
      [] OTHER -> TRUE

Nullish(j) == j.t \in {"undefined", "null"}

\* o.k for a non-nullish o
Get(o, k) == IF o.t = "object" /\ k \in DOMAIN o.f THEN o.f[k] ELSE Undef

\* o?.k
OptGet(o, k) == IF Nullish(o) THEN Undef ELSE Get(o, k)

\* o?.[0]
OptFirst(o) ==
    IF o.t = "array" /\ Len(o.e) > 0 THEN o.e[1] ELSE Undef

\* round n / d to the nearest integer, halves away from zero
\* (Number.prototype.toFixed on the exact value)
RoundHalfAway(n, d) ==
    IF n >= 0 THEN (2 * n + d) \div (2 * d) ELSE -((2 * (-n) + d) \div (2 * d))

\* parseFloat(x.toFixed(2)) of x given in thousandths: cents
toFixed2(thousandths) == RoundHalfAway(thousandths, 10)

Ok(v) == [ok |-> TRUE, value |-> v]

Throw(msg) == [ok |-> FALSE, message |-> msg]

(***************************************************************************)
(* fetchYahooPrice.  up is what axios.get settles with: an error (network  *)
(* failure, timeout, or a status outside 2xx, which axios rejects) or a    *)
(* response with a status and a body.                                      *)
(***************************************************************************)
AxiosError(msg) == [kind |-> "error", message |-> <<msg>>]

AxiosResponse(status, data) == [kind |-> "response", status |-> status, data |-> data]

\* the catch clause: throw new Error(`Yahoo API error: ${error.message}`)
YahooError(msg) == Throw(<<"Yahoo API error: ">> \o msg)

\* x ? parseFloat(x.toFixed(2)) : null, for a number or a falsy x
ChangeField(x) == IF Truthy(x) THEN Num(toFixed2(x.v)) ELSE Null

\* a truthy x on which .toFixed is not a function
ToFixedThrows(x) == Truthy(x) /\ x.t # "number"

\* mutant: each of the four meta fields must be present
YahooQuoteStrict(symbol, meta) ==
    LET price == Get(meta, "regularMarketPrice")
        currency == Get(meta, "currency")
        change == Get(meta, "regularMarketChange")
        changePercent == Get(meta, "regularMarketChangePercent")
    IN  IF Nullish(price) THEN YahooError(<<"Missing price data">>)
        ELSE IF price.t # "number"
        THEN YahooError(<<"price.toFixed is not a function">>)
        ELSE IF Nullish(currency) \/ Nullish(change) \/ Nullish(changePercent)
        THEN YahooError(<<"Missing meta field">>)
        ELSE IF ToFixedThrows(change)
        THEN YahooError(<<"meta.regularMarketChange.toFixed is not a function">>)
        ELSE IF ToFixedThrows(changePercent)
        THEN YahooError(<<"meta.regularMarketChangePercent.toFixed is not a function">>)
        ELSE Ok([symbol |-> symbol,
                 price |-> toFixed2(price.v),
                 currency |-> IF Truthy(currency) THEN currency ELSE Str("USD"),
                 source |-> "yahoo",
                 change_24h |-> ChangeField(change),
                 change_percent_24h |-> ChangeField(changePercent)])

YahooQuote(symbol, meta) ==
    LET price == Get(meta, "regularMarketPrice")
        currency == Get(meta, "currency")
        change == Get(meta, "regularMarketChange")
        changePercent == Get(meta, "regularMarketChangePercent")
    IN  IF Nullish(price) THEN YahooError(<<"Missing price data">>)
        ELSE IF price.t # "number"
        THEN YahooError(<<"price.toFixed is not a function">>)
        ELSE IF ToFixedThrows(change)
        THEN YahooError(<<"meta.regularMarketChange.toFixed is not a function">>)
        ELSE IF ToFixedThrows(changePercent)
        THEN YahooError(<<"meta.regularMarketChangePercent.toFixed is not a function">>)
        ELSE Ok([symbol |-> symbol,
                 price |-> toFixed2(price.v),
                 currency |-> IF Truthy(currency) THEN currency ELSE Str("USD"),
                 source |-> "yahoo",
                 change_24h |-> ChangeField(change),
                 change_percent_24h |-> ChangeField(changePercent)])

fetchYahooPrice(symbol, up) ==
    IF up.kind = "error" THEN YahooError(up.message)
    ELSE IF up.status # 200 THEN YahooError(<<"HTTP error: ", ToString(up.status)>>)
    ELSE IF Nullish(up.data)
    THEN YahooError(<<"Cannot read properties of ", up.data.t, " (reading 'chart')">>)
    ELSE LET result == OptFirst(OptGet(Get(up.data, "chart"), "result"))
         IN  IF ~Truthy(result) THEN YahooError(<<"Invalid response format">>)
             ELSE IF ~Truthy(Get(result, "meta")) THEN YahooError(<<"Missing meta data">>)
             ELSE YahooQuote(symbol, Get(result, "meta"))

(***************************************************************************)
(* fetchMockPrice.  r1 and r2 are the two Math.random() draws, in units of *)
(* 1 / RandSteps.                                                          *)
(***************************************************************************)
AAPL == <<"A", "A", "P", "L">>
TSLA == <<"T", "S", "L", "A">>
MSFT == <<"M", "S", "F", "T">>
GOOGL == <<"G", "O", "O", "G", "L">>
AMZN == <<"A", "M", "Z", "N">>
NVDA == <<"N", "V", "D", "A">>
META == <<"M", "E", "T", "A">>
NFLX == <<"N", "F", "L", "X">>
JPM == <<"J", "P", "M">>
BAC == <<"B", "A", "C">>
WFC == <<"W", "F", "C">>
GS == <<"G", "S">>

KnownSymbols == {AAPL, TSLA, MSFT, GOOGL, AMZN, NVDA, META, NFLX, JPM, BAC, WFC, GS}

basePrices(symbol) ==
    CASE symbol = AAPL -> 150
      [] symbol = TSLA -> 200
      [] symbol = MSFT -> 300
      [] symbol = GOOGL -> 2500
      [] symbol = AMZN -> 3000
      [] symbol = NVDA -> 400
      [] symbol = META -> 250
      [] symbol = NFLX -> 400
      [] symbol = JPM -> 150
      [] symbol = BAC -> 30
      [] symbol = WFC -> 40
      [] symbol = GS -> 350

\* basePrices[symbol] || (100.0 + (symbol.length * 10))
BasePrice(symbol) ==
    IF symbol \in KnownSymbols THEN basePrices(symbol) ELSE 100 + Len(symbol) * 10

\* mutant: (Math.random() - 0.5) * 0.2, a variation of up to 10%
MockPriceCentsWide(basePrice, r1) ==
    RoundHalfAway(10 * basePrice * (9 * RandSteps + 2 * r1), RandSteps)

\* price = basePrice * (1 + (r1/RandSteps - 0.5) * 0.1), in cents after toFixed(2):
\* basePrice * (19 * RandSteps + 2 * r1) / (20 * RandSteps) units
MockPriceCents(basePrice, r1) ==
    RoundHalfAway(5 * basePrice * (19 * RandSteps + 2 * r1), RandSteps)

\* change24h = (r2/RandSteps - 0.5) * 10, in cents after toFixed(2)
MockChangeCents(r2) == RoundHalfAway(500 * (2 * r2 - RandSteps), RandSteps)

\* changePercent24h = (change24h / price) * 100 on the unrounded values,
\* in hundredths of a percent after toFixed(2)
MockChangePercent(basePrice, r1, r2) ==
    RoundHalfAway(1000000 * (2 * r2 - RandSteps), basePrice * (19 * RandSteps + 2 * r1))

fetchMockPrice(symbol, r1, r2) ==
    Ok([symbol |-> symbol,
        price |-> MockPriceCents(BasePrice(symbol), r1),
        currency |-> Str("USD"),
        source |-> "mock",
        change_24h |-> Num(MockChangeCents(r2)),
        change_percent_24h |-> Num(MockChangePercent(BasePrice(symbol), r1, r2))])

(***************************************************************************)
(* fetchPrice: the client a source selects.                                *)
(***************************************************************************)
Yahoo == <<"y", "a", "h", "o", "o">>

Mock == <<"m", "o", "c", "k">>

\* a query parameter: absent, or present with a string value
Absent == [present |-> FALSE]

Present(s) == [present |-> TRUE, s |-> s]

\* !param: undefined and '' are falsy
Falsy(param) == ~param.present \/ param.s = <<>>

\* req.query.source || 'yahoo'
SourceOf(param) == IF Falsy(param) THEN Yahoo ELSE param.s

\* mutant: switch (source) without toLowerCase()
ClientForCaseSensitive(source) ==
    IF source = Yahoo THEN "fetchYahooPrice" ELSE "fetchMockPrice"

\* switch (source.toLowerCase()): 'yahoo' -> fetchYahooPrice,
\* 'mock' and default -> fetchMockPrice
ClientFor(source) ==
    IF toLowerCase(source) = Yahoo THEN "fetchYahooPrice" ELSE "fetchMockPrice"

\* the call fetchPrice(symbol, source) makes when it starts
Dispatch(symbol, source) == [fn |-> ClientFor(source), symbol |-> symbol]

(***************************************************************************)
(* Inputs.                                                                 *)
(***************************************************************************)
ExampleBatch ==
    <<"A", "A", "P", "L", ",", "T", "S", "L", "A", ",", "M", "S", "F", "T">>

ExampleMessy == <<"A", "A", "P", "L", ",", " ", ",", " ", "T", "S", "L", "A">>

ExampleRepeat == <<"a", "a", "p", "l", ",", "A", "A", "P", "L">>

ExampleSpaced ==
    <<" ", " ", "A", "A", "P", "L", " ", " ", ",", " ", " ", "T", "S", "L", "A",
      " ", " ", ",", " ", " ", "M", "S", "F", "T", " ", " ">>

SymbolsInputs ==
    {Absent} \cup {Present(s) : s \in StringsUpTo(MaxLen)}
             \cup {Present(ExampleBatch), Present(ExampleMessy),
                   Present(ExampleRepeat), Present(ExampleSpaced)}

\* :symbol of /price/:symbol is never empty
SymbolInputs == (StringsUpTo(MaxLen) \ {<<>>}) \cup {AAPL, toLowerCase(AAPL)}

SourceInputs ==
    {Absent, Present(<<>>), Present(Yahoo), Present(<<"Y", "a", "h", "o", "o">>),
     Present(Mock), Present(<<"x">>)}

\* Math.random() draws tried inside a whole request
RandomSamples == {0, RandSteps - 1}

GoodMeta ==
    [regularMarketPrice |-> Num(150254), currency |-> Str("EUR"),
     regularMarketChange |-> Num(2155), regularMarketChangePercent |-> Num(1450)]

BareMeta == [regularMarketPrice |-> Num(150255)]

ChartOf(meta) ==
    Obj([chart |-> Obj([result |-> Arr(<<Obj([meta |-> meta])>>)])])

\* upstream outcomes tried inside a whole request
UpstreamSamples ==
    {AxiosResponse(200, ChartOf(Obj(GoodMeta))),
     AxiosResponse(200, ChartOf(Obj(BareMeta))),
     AxiosResponse(200, Obj([chart |-> Obj([result |-> Null])])),
     AxiosError("timeout of 5000ms exceeded")}

(***************************************************************************)
(* Promises.                                                               *)
(***************************************************************************)
Pending == [status |-> "pending"]

\* the promise fetchPrice returns, settled with the outcome r
Settled(r) ==
    IF r.ok THEN [status |-> "fulfilled", value |-> r.value]
    ELSE [status |-> "rejected", reason |-> [message |-> r.message]]

\* .catch(error => ({ symbol, error: error.message })) on that promise
Caught(symbol, r) ==
    IF r.ok THEN [status |-> "fulfilled", value |-> r.value]
    ELSE [status |-> "fulfilled", value |-> [symbol |-> symbol, error |-> r.message]]

IsSettled(p) == p.status # "pending"

\* Promise.allSettled(promises) has resolved
AllSettled == \A i \in 1 .. Len(promises) : IsSettled(promises[i])

\* result.value.error: set on the object the catch handler returns
HasError(value) == "error" \in DOMAIN value

\* results.forEach((result, index) => ...) from index i on; allSettled
\* yields no status but fulfilled and rejected, any other entry is passed over
RECURSIVE PartitionFrom(_, _, _, _)
PartitionFrom(results, i, prices, errors) ==
    IF i > Len(results) THEN [prices |-> prices, errors |-> errors]
    ELSE LET result == results[i]
         IN  IF result.status = "fulfilled"
             THEN IF HasError(result.value)
                  THEN PartitionFrom(results, i + 1, prices,
                           Append(errors, <<symbolList[i], ": ">> \o result.value.error))
                  ELSE PartitionFrom(results, i + 1, Append(prices, result.value), errors)
             ELSE IF result.status = "rejected"
             THEN PartitionFrom(results, i + 1, prices,
                      Append(errors, <<symbolList[i], ": ">> \o result.reason.message))
             ELSE PartitionFrom(results, i + 1, prices, errors)

\* mutant: the batch is aborted by its first failure (no quote survives one)
PartitionAbort(results) ==
    LET part == PartitionFrom(results, 1, <<>>, <<>>)
    IN  IF Len(part.errors) > 0 THEN [prices |-> <<>>, errors |-> part.errors]
        ELSE part

\* mutant: the results are collected in the order the fetches settled
RECURSIVE PartitionSettledFrom(_, _, _, _)
PartitionSettledFrom(results, k, prices, errors) ==
    IF k > Len(settleOrder) THEN [prices |-> prices, errors |-> errors]
    ELSE LET i == settleOrder[k]
         IN  IF HasError(results[i].value)
             THEN PartitionSettledFrom(results, k + 1, prices,
                      Append(errors, <<symbolList[i], ": ">> \o results[i].value.error))
             ELSE PartitionSettledFrom(results, k + 1,
                      Append(prices, results[i].value), errors)

PartitionCompletionOrder(results) == PartitionSettledFrom(results, 1, <<>>, <<>>)

Partition(results) == PartitionFrom(results, 1, <<>>, <<>>)

\* the body of res.json({ success, prices, errors, total_* })
AggregateBody(part) ==
    [success |-> Len(part.prices) > 0,
     prices |-> part.prices,
     errors |-> IF Len(part.errors) > 0 THEN Arr(part.errors) ELSE Undef,
     total_requested |-> Len(symbolList),
     total_successful |-> Len(part.prices),
     total_failed |-> Len(part.errors)]

(***************************************************************************)
(* The request handlers.                                                   *)
(***************************************************************************)
Init ==
    /\ pc = "idle"
    /\ req = [route |-> "none"]
    /\ symbolList = <<>>
    /\ calls = <<>>
    /\ promises = <<>>
    /\ settleOrder = <<>>
    /\ response = <<>>

\* mutant: a symbols string that normalizes to nothing is rejected too
MissingSymbolsOrNone(symbols) ==
    Falsy(symbols) \/ NormalizeSymbols(symbols.s) = <<>>

\* if (!symbols)
MissingSymbols(symbols) == Falsy(symbols)

\* GET /prices up to await Promise.allSettled(promises)
ReceivePrices ==
    /\ pc = "idle"
    /\ \E symbols \in SymbolsInputs, source \in SourceInputs :
         /\ req' = [route |-> "prices", symbols |-> symbols, source |-> source]
         /\ IF MissingSymbols(symbols)
            THEN /\ response' =
                      <<[status |-> 400,
                         body |-> [error |-> "MISSING_SYMBOLS",
                                   message |-> <<"Missing 'symbols' parameter.">>]]>>
                 /\ pc' = "responded"
                 /\ UNCHANGED <<symbolList, calls, promises>>
            ELSE LET list == NormalizeSymbols(symbols.s)
                 IN  /\ symbolList' = list
                     /\ calls' = [i \in 1 .. Len(list) |->
                                      Dispatch(list[i], SourceOf(source))]
                     /\ promises' = [i \in 1 .. Len(list) |-> Pending]
                     /\ pc' = "awaiting"
                     /\ UNCHANGED response
    /\ UNCHANGED settleOrder

\* GET /price/:symbol up to await fetchPrice(symbol, source)
ReceivePrice ==
    /\ pc = "idle"
    /\ \E symbol \in SymbolInputs, source \in SourceInputs :
         /\ req' = [route |-> "price", symbol |-> symbol, source |-> source]
         /\ symbolList' = <<toUpperCase(symbol)>>
         /\ calls' = <<Dispatch(toUpperCase(symbol), SourceOf(source))>>
    /\ promises' = <<Pending>>
    /\ pc' = "awaiting"
    /\ UNCHANGED <<settleOrder, response>>

\* what a settled fetchPrice leaves in promises[i]
Settle(i, r) ==
    /\ promises' = [promises EXCEPT ![i] =
                       IF req.route = "prices" THEN Caught(symbolList[i], r)
                       ELSE Settled(r)]
    /\ settleOrder' = Append(settleOrder, i)
    /\ UNCHANGED <<pc, req, symbolList, calls, response>>

\* the upstream answers (or axios gives up on) the request of fetch i
SettleYahoo ==
    /\ pc = "awaiting"
    /\ \E i \in 1 .. Len(promises) :
         /\ promises[i].status = "pending"
         /\ calls[i].fn = "fetchYahooPrice"
         /\ \E up \in UpstreamSamples :
              Settle(i, fetchYahooPrice(calls[i].symbol, up))

\* fetchMockPrice of fetch i returns.  Its two Math.random() draws read and
\* write nothing shared, so they are taken here, where the promise settles
SettleMock ==
    /\ pc = "awaiting"
    /\ \E i \in 1 .. Len(promises) :
         /\ promises[i].status = "pending"
         /\ calls[i].fn = "fetchMockPrice"
         /\ \E r1 \in RandomSamples, r2 \in RandomSamples :
              Settle(i, fetchMockPrice(calls[i].symbol, r1, r2))

\* mutant: Promise.all in place of Promise.allSettled over the bare fetches:
\* the first failure resumes the handler
PricesReadyFailFast ==
    \/ AllSettled
    \/ \E i \in 1 .. Len(promises) :
         IsSettled(promises[i]) /\ HasError(promises[i].value)

\* when the await of GET /prices resumes
PricesReady == AllSettled

\* GET /prices after await Promise.allSettled(promises)
RespondPrices ==
    /\ pc = "awaiting"
    /\ req.route = "prices"
    /\ PricesReady
    /\ response' = <<[status |-> 200, body |-> AggregateBody(Partition(promises))]>>
    /\ pc' = "responded"
    /\ UNCHANGED <<req, symbolList, calls, promises, settleOrder>>

\* mutant: an upstream failure is answered 502
PriceResponseBadGateway(symbol, p) ==
    IF p.status = "fulfilled"
    THEN [status |-> 200, body |-> p.value]
    ELSE [status |-> 502,
          body |-> [error |-> "PRICE_FETCH_FAILED",
                    message |-> <<"Failed to fetch price for ", symbol, ": ">>
                                    \o p.reason.message]]

\* the try / catch around await fetchPrice(symbol, source)
PriceResponse(symbol, p) ==
    IF p.status = "fulfilled"
    THEN [status |-> 200, body |-> p.value]
    ELSE [status |-> 400,
          body |-> [error |-> "PRICE_FETCH_FAILED",
                    message |-> <<"Failed to fetch price for ", symbol, ": ">>
                                    \o p.reason.message]]

\* GET /price/:symbol after await fetchPrice(symbol, source)
RespondPrice ==
    /\ pc = "awaiting"
    /\ req.route = "price"
    /\ IsSettled(promises[1])
    /\ response' = <<PriceResponse(symbolList[1], promises[1])>>
    /\ pc' = "responded"
    /\ UNCHANGED <<req, symbolList, calls, promises, settleOrder>>

Next ==
    \/ ReceivePrices
    \/ ReceivePrice
    \/ SettleYahoo
    \/ SettleMock
    \/ RespondPrices
    \/ RespondPrice

Spec == Init /\ [][Next]_vars

\* every fetch settles (axios enforces its timeout) and the event loop
\* resumes a handler whose await has resolved
FairSpec ==
    /\ Spec
    /\ WF_vars(SettleYahoo)
    /\ WF_vars(SettleMock)
    /\ WF_vars(RespondPrices)
    /\ WF_vars(RespondPrice)

(***************************************************************************)
(* fetchMockPrice and fetchYahooPrice on their own: the initial state      *)
(* holds the arguments, the one step is the call.                          *)
(***************************************************************************)
\* symbols reach fetchMockPrice uppercased and non-empty
MockSymbols ==
    KnownSymbols \cup {toUpperCase(s) : s \in StringsUpTo(MaxSymLen) \ {<<>>}}

InitMock ==
    /\ pc = "call"
    /\ req \in [fn : {"fetchMockPrice"}, symbol : MockSymbols,
                r1 : 0 .. RandSteps - 1, r2 : 0 .. RandSteps - 1]
    /\ symbolList = <<>>
    /\ calls = <<>>
    /\ promises = <<>>
    /\ settleOrder = <<>>
    /\ response = <<>>

MockCall ==
    /\ pc = "call"
    /\ req.fn = "fetchMockPrice"
    /\ promises' = <<Settled(fetchMockPrice(req.symbol, req.r1, req.r2))>>
    /\ pc' = "returned"
    /\ UNCHANGED <<req, symbolList, calls, settleOrder, response>>

MockSpec == InitMock /\ [][MockCall]_vars

PriceValues == {Undef, Null, Num(0), Num(150254), Num(150255), Str("150.25")}

CurrencyValues == {Undef, Null, Str(""), Str("EUR"), Num(840000)}

ChangeValues == {Undef, Null, Num(0), Num(2155), Num(-2155), Str("2.15")}

MetaObjects ==
    {Obj([regularMarketPrice |-> p, currency |-> c,
          regularMarketChange |-> d, regularMarketChangePercent |-> e]) :
        p \in PriceValues, c \in CurrencyValues, d \in ChangeValues, e \in ChangeValues}

Bodies ==
    {Undef, Null, Str("<html>"), Obj([error |-> Str("Not Found")]),
     Obj([chart |-> Null]),
     Obj([chart |-> Obj([error |-> Null])]),
     Obj([chart |-> Obj([result |-> Null])]),
     Obj([chart |-> Obj([result |-> Arr(<<>>)])]),
     Obj([chart |-> Obj([result |-> Arr(<<Null>>)])]),
     Obj([chart |-> Obj([result |-> Arr(<<Obj([timestamp |-> Arr(<<>>)])>>)])]),
     ChartOf(Null)}
    \cup {ChartOf(m) : m \in MetaObjects}

Upstreams ==
    {AxiosError("Network Error"), AxiosError("timeout of 5000ms exceeded"),
     AxiosError("Request failed with status code 404"),
     AxiosError("Request failed with status code 500")}
    \cup {AxiosResponse(st, d) : st \in {200, 204}, d \in Bodies}

InitYahoo ==
    /\ pc = "call"
    /\ req \in [fn : {"fetchYahooPrice"}, symbol : {AAPL, <<"A">>}, up : Upstreams]
    /\ symbolList = <<>>
    /\ calls = <<>>
    /\ promises = <<>>
    /\ settleOrder = <<>>
    /\ response = <<>>

YahooCall ==
    /\ pc = "call"
    /\ req.fn = "fetchYahooPrice"
    /\ promises' = <<Settled(fetchYahooPrice(req.symbol, req.up))>>
    /\ pc' = "returned"
    /\ UNCHANGED <<req, symbolList, calls, settleOrder, response>>

YahooSpec == InitYahoo /\ [][YahooCall]_vars

(***************************************************************************)
(* Properties of GET /prices.                                              *)
(***************************************************************************)
\* GET /prices passed the symbols check and has been answered
PricesAnswered ==
    /\ pc = "responded"
    /\ req.route = "prices"
    /\ ~MissingSymbols(req.symbols)

\* GET /prices passed the symbols check and awaits its fetches
PricesAwaiting == pc = "awaiting" /\ req.route = "prices"

FetchFailed(i) == IsSettled(promises[i]) /\ HasError(promises[i].value)

FetchSucceeded(i) == IsSettled(promises[i]) /\ ~HasError(promises[i].value)

Indices == [i \in 1 .. Len(promises) |-> i]

SucceededIndices == SelectSeq(Indices, FetchSucceeded)

FailedIndices == SelectSeq(Indices, FetchFailed)

\* position of fetch i in the order of settlement
SettledAt(i) == CHOOSE k \in 1 .. Len(settleOrder) : settleOrder[k] = i

C1_Dispatched ==
    (PricesAwaiting \/ PricesAnswered) =>
        /\ Len(calls) = Len(symbolList)
        /\ Len(promises) = Len(symbolList)
        /\ \A i \in 1 .. Len(symbolList) : calls[i].symbol = symbolList[i]

C1_NoEarlyResponse ==
    /\ PricesAwaiting => response = <<>>
    /\ PricesAnswered =>
        /\ \A i \in 1 .. Len(promises) : IsSettled(promises[i])
        /\ Len(settleOrder) = Len(symbolList)

\* C1: GET /prices starts one fetch per dispatched symbol before any of them
\* has settled, answers only when every one of them has settled (never on the
\* first failure), and, every fetch settling, does answer.
C1_JoinAll ==
    /\ [](C1_Dispatched /\ C1_NoEarlyResponse)
    /\ (PricesAwaiting ~> PricesAnswered)

\* a batch answered although its first fetch to settle had failed while
\* another was still outstanding
C1_Witness ==
    /\ PricesAnswered
    /\ Len(promises) >= 2
    /\ \E i, j \in 1 .. Len(promises) :
         /\ FetchFailed(i) /\ FetchSucceeded(j)
         /\ SettledAt(i) < SettledAt(j)

\* C2: the answer of GET /prices is 200 and classifies every dispatched symbol
\* once, by its own outcome: as many quotes as fetches that succeeded, as many
\* error strings as fetches that failed, total_requested the number of
\* dispatched symbols, the two other totals adding up to it; the mock source
\* fails for no symbol.
C2_IndependentClassification ==
    PricesAnswered =>
        LET body == response[1].body
            nOk == Len(SucceededIndices)
            nFailed == Len(FailedIndices)
        IN  /\ response[1].status = 200
            /\ body.total_requested = Len(symbolList)
            /\ body.total_successful = nOk
            /\ body.total_failed = nFailed
            /\ body.total_successful + body.total_failed = body.total_requested
            /\ Len(body.prices) = nOk
            /\ \A i \in 1 .. Len(promises) :
                 FetchSucceeded(i) =>
                     \E k \in 1 .. Len(body.prices) : body.prices[k] = promises[i].value
            /\ IF nFailed = 0 THEN body.errors = Undef
               ELSE /\ body.errors.t = "array"
                    /\ Len(body.errors.e) = nFailed
                    /\ \A i \in 1 .. Len(promises) :
                         FetchFailed(i) =>
                             \E k \in 1 .. nFailed : body.errors.e[k][1] = symbolList[i]
            /\ (\A i \in 1 .. Len(calls) : calls[i].fn = "fetchMockPrice") =>
                   body.total_failed = 0
            /\ (req.symbols.s = ExampleBatch /\ ClientFor(SourceOf(req.source)) = "fetchMockPrice") =>
                   /\ body.total_requested = 3
                   /\ body.total_successful = 3
                   /\ body.total_failed = 0

\* a batch answered with both a quote and an error
C2_Witness ==
    /\ PricesAnswered
    /\ response[1].body.total_successful > 0
    /\ response[1].body.total_failed > 0
    /\ Len(response[1].body.prices) > 0
    /\ response[1].body.errors # Undef

\* C10: prices lists the quotes of the fetches that succeeded, and errors the
\* strings of the fetches that failed, each in the order of the dispatched
\* symbol list whatever the order of settlement, and each error string starts
\* with the symbol of the fetch that failed.
C10_ListOrder ==
    PricesAnswered =>
        LET body == response[1].body
            errs == IF body.errors = Undef THEN <<>> ELSE body.errors.e
        IN  /\ body.prices = [k \in 1 .. Len(SucceededIndices) |->
                                 promises[SucceededIndices[k]].value]
            /\ Len(errs) = Len(FailedIndices)
            /\ \A k \in 1 .. Len(errs) :
                 /\ errs[k][1] = symbolList[FailedIndices[k]]
                 /\ errs[k][2] = ": "
                 /\ SubSeq(errs[k], 3, Len(errs[k])) =
                        promises[FailedIndices[k]].value.error

\* an answered batch where two fetches succeeded with differing quotes, the
\* later of the list settling first, and another failed
C10_Witness ==
    /\ PricesAnswered
    /\ \E i, j \in 1 .. Len(promises) :
         /\ i < j
         /\ SettledAt(j) < SettledAt(i)
         /\ FetchSucceeded(i) /\ FetchSucceeded(j)
         /\ promises[i].value # promises[j].value
    /\ \E i \in 1 .. Len(promises) : FetchFailed(i)

(***************************************************************************)
(* Properties of the symbols parameter.                                    *)
(***************************************************************************)
IsSeparator(c) == c = "," \/ c = " "

\* the places of s where a maximal separator-free substring starts
TokenStarts(s) ==
    {i \in 1 .. Len(s) :
        ~IsSeparator(s[i]) /\ (i = 1 \/ IsSeparator(s[i - 1]))}

\* the last place of the maximal separator-free substring that starts at i
TokenEnd(s, i) ==
    CHOOSE j \in i .. Len(s) :
        /\ \A k \in i .. j : ~IsSeparator(s[k])
        /\ j = Len(s) \/ IsSeparator(s[j + 1])

\* the k-th start, in input order
KthStart(s, k) ==
    CHOOSE i \in TokenStarts(s) :
        Cardinality({h \in TokenStarts(s) : h < i}) = k - 1

\* the maximal separator-free substrings of s, in input order
Tokens(s) ==
    [k \in 1 .. Cardinality(TokenStarts(s)) |->
        SubSeq(s, KthStart(s, k), TokenEnd(s, KthStart(s, k)))]

IsUpperOf(u, s) ==
    /\ Len(u) = Len(s)
    /\ \A i \in 1 .. Len(s) :
         /\ \A k \in 1 .. 26 : u[i] # Lowers[k]
         /\ u[i] = s[i] \/ \E k \in 1 .. 26 : s[i] = Lowers[k] /\ u[i] = Uppers[k]

PricesDispatched == PricesAwaiting \/ PricesAnswered

\* the statement of C3 as written: no empty symbol and no symbol twice in the
\* dispatched list
C3_Original ==
    PricesDispatched =>
        /\ \A i \in 1 .. Len(symbolList) : symbolList[i] # <<>>
        /\ \A i, j \in 1 .. Len(symbolList) : symbolList[i] = symbolList[j] => i = j

\* C3 (amended): no empty symbol is dispatched, and a symbol is dispatched,
\* fetched and counted in total_requested once for each of its occurrences in
\* the symbols string: repeats are kept.
C3_EmptiesDroppedRepeatsKept ==
    PricesDispatched =>
        /\ \A i \in 1 .. Len(symbolList) : symbolList[i] # <<>>
        /\ Len(symbolList) = Cardinality(TokenStarts(req.symbols.s))
        /\ Len(calls) = Cardinality(TokenStarts(req.symbols.s))
        /\ PricesAnswered =>
               response[1].body.total_requested =
                   Cardinality(TokenStarts(req.symbols.s))

\* symbols=aapl,AAPL answered with total_requested 2
C3_Witness ==
    /\ PricesAnswered
    /\ req.symbols.s = ExampleRepeat
    /\ symbolList = <<AAPL, AAPL>>
    /\ Len(calls) = 2
    /\ response[1].body.total_requested = 2

\* C4: the dispatched list is the sequence of the maximal separator-free
\* substrings of the symbols string, each uppercased, in input order.
C4_Normalization ==
    PricesDispatched =>
        LET tokens == Tokens(req.symbols.s)
        IN  /\ Len(symbolList) = Len(tokens)
            /\ \A k \in 1 .. Len(tokens) : IsUpperOf(symbolList[k], tokens[k])
            /\ req.symbols.s = ExampleMessy => symbolList = <<AAPL, TSLA>>
            /\ req.symbols.s = ExampleSpaced => symbolList = <<AAPL, TSLA, MSFT>>

\* a symbols string with a leading and a trailing separator, one of each
\* kind, around a lowercase symbol
C4_Witness ==
    /\ PricesDispatched
    /\ req.symbols.s = <<" ", "a", ",">>
    /\ symbolList = << <<"A">> >>

\* C5: GET /prices answers 400 MISSING_SYMBOLS, with a message and without a
\* fetch, exactly when symbols is absent or empty; any other symbols string,
\* even one that normalizes to no symbol, is answered 200, with
\* total_requested = 0 in that case.
C5_MissingSymbols ==
    (req.route = "prices" /\ pc # "idle") =>
        IF ~req.symbols.present \/ Len(req.symbols.s) = 0
        THEN /\ pc = "responded"
             /\ response[1].status = 400
             /\ response[1].body.error = "MISSING_SYMBOLS"
             /\ Len(response[1].body.message) > 0
             /\ calls = <<>>
             /\ promises = <<>>
        ELSE /\ pc = "awaiting" => response = <<>>
             /\ pc = "responded" =>
                  /\ response[1].status = 200
                  /\ "error" \notin DOMAIN response[1].body
                  /\ Cardinality(TokenStarts(req.symbols.s)) = 0 =>
                         response[1].body.total_requested = 0
             /\ Cardinality(TokenStarts(req.symbols.s)) = 0 => calls = <<>>

\* a request without the symbols parameter, answered
C5_Witness ==
    /\ req.route = "prices"
    /\ pc = "responded"
    /\ ~req.symbols.present
    /\ response[1].status = 400

(***************************************************************************)
(* Properties of GET /price/:symbol and of the choice of the source.       *)
(***************************************************************************)
\* C6: GET /price/:symbol looks the uppercased symbol up and answers either
\* 200 with the Quote of that symbol and of the source used, when the lookup
\* succeeded, or 400 PRICE_FETCH_FAILED with a message, when it failed; a
\* settled lookup can always be answered.
C6_SinglePrice ==
    req.route = "price" =>
        /\ Len(calls) = 1
        /\ IsUpperOf(calls[1].symbol, req.symbol)
        /\ pc = "awaiting" =>
             /\ response = <<>>
             /\ IsSettled(promises[1]) => ENABLED RespondPrice
        /\ pc = "responded" =>
             /\ IsSettled(promises[1])
             /\ response[1].status \in {200, 400}
             /\ promises[1].status = "fulfilled" =>
                  /\ response[1].status = 200
                  /\ IsUpperOf(response[1].body.symbol, req.symbol)
                  /\ response[1].body.source =
                         (IF calls[1].fn = "fetchYahooPrice" THEN "yahoo" ELSE "mock")
                  /\ response[1].body.price >= 0
             /\ promises[1].status = "rejected" =>
                  /\ response[1].status = 400
                  /\ response[1].body.error = "PRICE_FETCH_FAILED"
                  /\ Len(response[1].body.message) > 0
             /\ (req.symbol = AAPL /\ req.source = Present(Mock)) =>
                  /\ response[1].status = 200
                  /\ response[1].body.symbol = AAPL
                  /\ response[1].body.source = "mock"

\* a lookup that failed, answered
C6_Witness ==
    /\ req.route = "price"
    /\ pc = "responded"
    /\ promises[1].status = "rejected"
    /\ response[1].status = 400

IsYahooAnyCase(s) ==
    /\ Len(s) = 5
    /\ s[1] \in {"y", "Y"}
    /\ s[2] \in {"a", "A"}
    /\ s[3] \in {"h", "H"}
    /\ s[4] \in {"o", "O"}
    /\ s[5] \in {"o", "O"}

NoSource == ~req.source.present \/ req.source.s = <<>>

\* the statement of C9 as written: without a source parameter, or with one
\* other than yahoo, every fetch is fetchMockPrice
C9_Original ==
    (req.route \in {"price", "prices"}) =>
        \A i \in 1 .. Len(calls) :
            /\ (~req.source.present \/ ~IsYahooAnyCase(req.source.s)) =>
                   calls[i].fn = "fetchMockPrice"
            /\ calls[i].fn = "fetchYahooPrice" =>
                   (req.source.present /\ IsYahooAnyCase(req.source.s))

\* C9 (amended): on both routes a request whose source is absent or empty is
\* served by the live Quote Client (the default source is yahoo), as is one
\* whose source is yahoo in any case; every other source is served by the
\* Mock Generator.
C9_SourceSelection ==
    (req.route \in {"price", "prices"}) =>
        \A i \in 1 .. Len(calls) :
            IF NoSource \/ IsYahooAnyCase(req.source.s)
            THEN calls[i].fn = "fetchYahooPrice"
            ELSE /\ calls[i].fn = "fetchMockPrice"
                 /\ IsSettled(promises[i]) =>
                      (IF req.route = "prices"
                       THEN FetchSucceeded(i) /\ promises[i].value.source = "mock"
                       ELSE promises[i].status = "fulfilled"
                            /\ promises[i].value.source = "mock")

\* a request without a source parameter, served by the live Quote Client, and
\* so is never reached with the mock
C9_Witness ==
    /\ req.route \in {"price", "prices"}
    /\ ~req.source.present
    /\ Len(calls) > 0
    /\ calls[1].fn = "fetchYahooPrice"
    /\ IsSettled(promises[1])

(***************************************************************************)
(* Properties of the two quote sources.                                    *)
(***************************************************************************)
MockReturned == pc = "returned" /\ req.fn = "fetchMockPrice"

\* C7: fetchMockPrice returns, for every symbol and every pair of random
\* draws, a Quote of that symbol with source mock whose price is within 5% of
\* the base price: the table entry of a known symbol, 100 + 10 * length
\* otherwise.
C7_MockWithinFivePercent ==
    MockReturned =>
        LET base == IF req.symbol \in KnownSymbols THEN basePrices(req.symbol)
                    ELSE 100 + 10 * Len(req.symbol)
        IN  /\ promises[1].status = "fulfilled"
            /\ promises[1].value.symbol = req.symbol
            /\ promises[1].value.source = "mock"
            /\ 95 * base <= promises[1].value.price
            /\ promises[1].value.price <= 105 * base
            /\ req.symbol = AAPL =>
                   (14250 <= promises[1].value.price /\ promises[1].value.price <= 15750)
            /\ req.symbol = <<"A", "A">> =>
                   (11400 <= promises[1].value.price /\ promises[1].value.price <= 12600)

\* the lowest draw for an unknown symbol: the price is 5% under the base
C7_Witness ==
    /\ MockReturned
    /\ req.symbol = <<"A", "A">>
    /\ req.r1 = 0
    /\ promises[1].value.price = 11400

YahooReturned == pc = "returned" /\ req.fn = "fetchYahooPrice"

\* chart.result[0].meta of an upstream response
MetaOf(up) ==
    IF up.kind = "response" /\ ~Nullish(up.data)
    THEN LET result == OptFirst(OptGet(Get(up.data, "chart"), "result"))
         IN  IF Truthy(result) THEN Get(result, "meta") ELSE Undef
    ELSE Undef

Field(up, k) == Get(MetaOf(up), k)

IsNumber(j) == j.t = "number"

NumberOrFalsy(j) == IsNumber(j) \/ ~Truthy(j)

\* the statement of C8 as written: a Quote only when the status is 200 and
\* each of the four meta fields is present and valid, a failure with a
\* "Yahoo API error" otherwise
C8_Original ==
    YahooReturned =>
        /\ promises[1].status = "fulfilled" =>
            /\ req.up.kind = "response"
            /\ req.up.status = 200
            /\ IsNumber(Field(req.up, "regularMarketPrice"))
            /\ Field(req.up, "currency").t = "string"
            /\ IsNumber(Field(req.up, "regularMarketChange"))
            /\ IsNumber(Field(req.up, "regularMarketChangePercent"))
        /\ promises[1].status = "rejected" =>
            promises[1].reason.message[1] = "Yahoo API error: "

\* C8 (amended): fetchYahooPrice returns a Quote exactly when the status is
\* 200, chart.result[0].meta exists, regularMarketPrice is a number and each of
\* regularMarketChange and regularMarketChangePercent is a number or missing
\* (falsy); a missing currency is reported as USD and a missing or zero change
\* as null.  Everything else fails with an Error "Yahoo API error: ...".
C8_QuoteOrYahooError ==
    YahooReturned =>
        LET p == promises[1]
            good == /\ req.up.kind = "response"
                    /\ req.up.status = 200
                    /\ Truthy(MetaOf(req.up))
                    /\ IsNumber(Field(req.up, "regularMarketPrice"))
                    /\ NumberOrFalsy(Field(req.up, "regularMarketChange"))
                    /\ NumberOrFalsy(Field(req.up, "regularMarketChangePercent"))
        IN  /\ p.status \in {"fulfilled", "rejected"}
            /\ p.status = "fulfilled" <=> good
            /\ p.status = "rejected" =>
                   /\ Len(p.reason.message) >= 2
                   /\ p.reason.message[1] = "Yahoo API error: "
            /\ p.status = "fulfilled" =>
                   /\ p.value.symbol = req.symbol
                   /\ p.value.source = "yahoo"
                   /\ ~Truthy(Field(req.up, "currency")) => p.value.currency = Str("USD")
                   /\ Truthy(Field(req.up, "currency")) =>
                          p.value.currency = Field(req.up, "currency")
                   /\ ~Truthy(Field(req.up, "regularMarketChange")) =>
                          p.value.change_24h = Null
                   /\ ~Truthy(Field(req.up, "regularMarketChangePercent")) =>
                          p.value.change_percent_24h = Null

\* a 200 response without currency and without the change fields, returned
\* as a Quote in USD
C8_Witness ==
    /\ YahooReturned
    /\ req.up.kind = "response"
    /\ req.up.status = 200
    /\ Field(req.up, "regularMarketPrice") = Num(150255)
    /\ Field(req.up, "currency") = Undef
    /\ Field(req.up, "regularMarketChange") = Undef
    /\ promises[1].status = "fulfilled"
    /\ promises[1].value.price = 15026
    /\ promises[1].value.currency = Str("USD")
    /\ promises[1].value.change_24h = Null

====
